---- MODULE Spec2Model ----
(***************************************************************************)
(* Model of youtube_audio.py: StreamingAudioPlayer (bounded queue, output  *)
(* stream, _audio_callback with its leftover buffer) and                   *)
(* YouTubeAudioPlayer (play / stop / _stream_and_play worker thread).      *)
(*                                                                         *)
(* Threads: the controller (the caller of play()/stop(), calls are         *)
(* sequential), one decode worker per play(), and the audio thread of each *)
(* started output stream, which runs _audio_callback.                      *)
(*                                                                         *)
(* A sample frame is <<s, k>>: sample k of the media as decoded by the     *)
(* worker of session s (the s-th play() call).  ZeroFrame is the silent    *)
(* frame the callback writes with outdata[...] = 0.                        *)
(***************************************************************************)
EXTENDS Integers, Sequences, FiniteSets, TLC

\* ---- bounds of the model ----
MaxPlays == 2       \* play() calls per behaviour
MaxStops == 2       \* stop() calls per behaviour
MaxFrames == 3      \* decoded frames the demuxer yields per session, at most
QueueSize == 2      \* queue_size of the StreamingAudioPlayer (model-sized)

\* ---- program constant ----
CHUNK_SIZE == 1     \* self._CHUNK_SIZE

Sessions == 1..MaxPlays

ZeroFrame == <<0, 0>>

VARIABLES
    cfg,            \* environment: sample counts of decoded frames, callback block sizes,
                    \*   start times, ticks per second of the stream's time_base
    ctl,            \* controller thread: the call in progress and its position
    plays,          \* number of play() calls invoked so far
    stops,          \* number of stop() calls invoked so far
    player,         \* self._player: session of the current StreamingAudioPlayer, 0 = no attribute yet
    stream_thread,  \* self._stream_thread: session of the thread object, 0 = None
    exit_worker,    \* self._exit_worker
    stream,         \* per player: state of self._audio_stream (sd.OutputStream)
    closeCalls,     \* per player: number of close() calls made on it
    queue,          \* per player: contents of self._queue, head first
    leftover,       \* per player: self._leftover_buffer
    thread,         \* per session: the worker thread running _stream_and_play
    pushed,         \* per player: all frames put into its queue so far, in order
    delivered,      \* per player: all data frames written to outdata so far, in order
    underrun,       \* per player: some callback took the zero-fill branch
    lastCb,         \* the most recent _audio_callback invocation
    late            \* steps the live worker has taken since the cancellation flag was
                    \*   set: frames accumulated (acc) and chunks enqueued (put)

vars == <<cfg, ctl, plays, stops, player, stream_thread, exit_worker, stream,
          closeCalls, queue, leftover, thread, pushed, delivered, underrun, lastCb,
          late>>

\* ---- sequences ----
Min(a, b) == IF a <= b THEN a ELSE b

Take(s, n) == SubSeq(s, 1, Min(n, Len(s)))

Drop(s, n) == SubSeq(s, Min(n, Len(s)) + 1, Len(s))

RECURSIVE Flatten(_)
Flatten(ss) == IF ss = <<>> THEN <<>> ELSE Head(ss) \o Flatten(Tail(ss))

IsPrefix(a, b) == Len(a) <= Len(b) /\ SubSeq(b, 1, Len(a)) = a

\* ---- StreamingAudioPlayer ----

\* self._leftover_buffer: no attribute yet / None / an array of frames
LeftUnset == [st |-> "unset", buf |-> <<>>]
LeftNone == [st |-> "none", buf |-> <<>>]
LeftBuf(b) == [st |-> "buf", buf |-> b]

QueueFullOffByOne(q, maxsize) == Len(q) > maxsize

\* queue.Queue.put blocks while the queue holds maxsize items
QueueFull(q, maxsize) == Len(q) >= maxsize

\* line 74-76: the leftover frames that start the buffer
LeftoverFrames(lo) == IF lo.st = "buf" /\ Len(lo.buf) > 0 THEN lo.buf ELSE <<>>

FetchedAll(q) == q

FetchedNone(q) == <<>>

\* line 80: get_nowait() removes the head item, or raises queue.Empty
Fetched(q) == IF q = <<>> THEN <<>> ELSE <<Head(q)>>

GatherChunkFirst(left, chunk) == chunk \o left

\* lines 75, 81: np.vstack((buffer, ...)): leftover first, then the fetched chunk
Gather(left, chunk) == left \o chunk

SilenceMissing(n) == <<>>

\* line 91: outdata[len(buffer):] = 0
Silence(n) == [i \in 1..n |-> ZeroFrame]

\* lines 86-91: what the callback writes to outdata
OutData(buffer, frames) ==
    IF Len(buffer) >= frames
    THEN SubSeq(buffer, 1, frames)
    ELSE buffer \o Silence(frames - Len(buffer))

RemainderFromStart(buffer, frames) == SubSeq(buffer, 1, Len(buffer) - frames)

RemainderOffByOne(buffer, frames) == SubSeq(buffer, frames + 2, Len(buffer))

\* line 88: buffer[len(outdata):]
Remainder(buffer, frames) == SubSeq(buffer, frames + 1, Len(buffer))

LeftoverAfterNotCleared(lo, buffer, frames) ==
    IF Len(buffer) >= frames THEN LeftBuf(Remainder(buffer, frames)) ELSE lo

\* lines 76, 88: self._leftover_buffer after the callback
LeftoverAfter(lo, buffer, frames) ==
    IF Len(buffer) >= frames
    THEN LeftBuf(Remainder(buffer, frames))
    ELSE IF lo.st = "buf" /\ Len(lo.buf) > 0 THEN LeftNone ELSE lo

CloseStreamSkipped(st) == st

\* lines 63-64: self._audio_stream.stop(); self._audio_stream.close()
CloseStream(st) == "closed"

\* lines 55-57: add_audio(audio_data) once put() has found a free slot
Enqueue(q, audio_data) == Append(q, audio_data)

NoCallback ==
    [p |-> 0, frames |-> 0, left |-> <<>>, chunk |-> <<>>, got |-> FALSE,
     out |-> <<>>, st |-> "none"]

\* lines 66-91: one invocation of _audio_callback on player p, asked for `frames` frames.
\* Before line 46 has run the attribute read at line 74 raises; the exception
\* leaves outdata unwritten and the stream either aborts or keeps running.
Callback(p, frames) ==
    /\ stream[p] = "active"
    /\ IF leftover[p].st = "unset"
       THEN /\ \E o \in {"aborted", "active"} : stream' = [stream EXCEPT ![p] = o]
            /\ lastCb' = [NoCallback EXCEPT !.p = p, !.frames = frames, !.st = "error"]
            /\ UNCHANGED <<queue, leftover, delivered, underrun>>
       ELSE LET left == LeftoverFrames(leftover[p])
                got == Fetched(queue[p])
                chunk == Flatten(got)
                buffer == Gather(left, chunk)
            IN  /\ queue' = [queue EXCEPT ![p] = SubSeq(@, Len(got) + 1, Len(@))]
                /\ leftover' = [leftover EXCEPT ![p] = LeftoverAfter(@, buffer, frames)]
                /\ delivered' = [delivered EXCEPT ![p] = @ \o Take(buffer, frames)]
                /\ underrun' = [underrun EXCEPT ![p] = @ \/ Len(buffer) < frames]
                /\ lastCb' = [p |-> p, frames |-> frames, left |-> left, chunk |-> chunk,
                              got |-> got # <<>>, out |-> OutData(buffer, frames),
                              st |-> "ok"]
                /\ UNCHANGED stream
    /\ UNCHANGED <<cfg, ctl, plays, stops, player, stream_thread, exit_worker,
                   closeCalls, thread, pushed>>
    /\ UNCHANGED late

\* ---- YouTubeAudioPlayer: the worker thread, _stream_and_play ----

NoThread == [pc |-> "none", start |-> 0, pos |-> 0, n |-> 0, frame |-> <<>>, chunk |-> <<>>]

\* a thread that has returned: its locals are gone
DeadThread == [NoThread EXCEPT !.pc = "dead"]

Alive(s) == thread[s].pc \notin {"none", "dead"}

\* line 159: seek_point = int(start_time_seconds / time_base), time_base = 1/ticks
SeekPoint(start_time_seconds, ticks) == start_time_seconds * ticks

\* line 167-168: the samples of one decoded frame, len of them from position pos
FrameSamples(s, pos, len) == [i \in 1..len |-> <<s, pos + i>>]

\* lines 159-160
WorkerSeek(s) ==
    /\ thread[s].pc = "seek"
    /\ thread' = [thread EXCEPT ![s].pos = SeekPoint(thread[s].start, cfg.ticks),
                                ![s].pc = "next"]
    /\ UNCHANGED <<cfg, ctl, plays, stops, player, stream_thread, exit_worker, stream,
                   closeCalls, queue, leftover, pushed, delivered, underrun, lastCb>>
    /\ UNCHANGED late

\* lines 163-164: the demuxer yields the next decoded frame
WorkerNext(s) ==
    /\ thread[s].pc = "next"
    /\ thread[s].n < MaxFrames
    /\ \E len \in cfg.lens :
         thread' = [thread EXCEPT ![s].frame = FrameSamples(s, thread[s].pos, len),
                                  ![s].pos = @ + len,
                                  ![s].n = @ + 1,
                                  ![s].pc = "check"]
    /\ UNCHANGED <<cfg, ctl, plays, stops, player, stream_thread, exit_worker, stream,
                   closeCalls, queue, leftover, pushed, delivered, underrun, lastCb>>
    /\ UNCHANGED late

\* the count restarts with each worker and is dropped when the worker returns
NoLate == [acc |-> 0, put |-> 0]

\* one more step of kind k counted when the flag is set at the time of the step
Counted(l, k, flag) == IF flag THEN [l EXCEPT ![k] = @ + 1] ELSE l

\* lines 163-164: the demuxer is exhausted (or decoding raises): the thread ends
WorkerEnd(s) ==
    /\ thread[s].pc = "next"
    /\ thread' = [thread EXCEPT ![s] = DeadThread]
    /\ UNCHANGED <<cfg, ctl, plays, stops, player, stream_thread, exit_worker, stream,
                   closeCalls, queue, leftover, pushed, delivered, underrun, lastCb>>
    /\ late' = NoLate

CancelledNever(flag) == FALSE

\* line 165: the cancellation test made before a frame is accumulated
Cancelled(flag) == flag

\* lines 165-166: test the flag; return when it is set
WorkerCheck(s) ==
    /\ thread[s].pc = "check"
    /\ IF Cancelled(exit_worker)
       THEN thread' = [thread EXCEPT ![s] = DeadThread] /\ late' = NoLate
       ELSE thread' = [thread EXCEPT ![s].pc = "append"] /\ UNCHANGED late
    /\ UNCHANGED <<cfg, ctl, plays, stops, player, stream_thread, exit_worker, stream,
                   closeCalls, queue, leftover, pushed, delivered, underrun, lastCb>>

\* lines 167-171: accumulate the frame; a chunk of CHUNK_SIZE frames is put next
WorkerAppend(s) ==
    /\ thread[s].pc = "append"
    /\ LET c == Append(thread[s].chunk, thread[s].frame)
       IN  thread' = [thread EXCEPT ![s].chunk = c,
                                    ![s].frame = <<>>,
                                    ![s].pc = IF Len(c) = CHUNK_SIZE
                                              THEN "put" ELSE "next"]
    /\ late' = Counted(late, "acc", exit_worker)
    /\ UNCHANGED <<cfg, ctl, plays, stops, player, stream_thread, exit_worker, stream,
                   closeCalls, queue, leftover, pushed, delivered, underrun, lastCb>>

\* lines 172-174: self._player.add_audio(np.concatenate(chunk)); chunk.clear()
WorkerPut(s) ==
    /\ thread[s].pc = "put"
    /\ ~QueueFull(queue[player], QueueSize)
    /\ LET audio_data_combined == Flatten(thread[s].chunk)
       IN  /\ queue' = [queue EXCEPT ![player] = Enqueue(@, audio_data_combined)]
           /\ pushed' = [pushed EXCEPT ![player] = @ \o audio_data_combined]
    /\ thread' = [thread EXCEPT ![s].chunk = <<>>, ![s].pc = "next"]
    /\ UNCHANGED <<cfg, ctl, plays, stops, player, stream_thread, exit_worker, stream,
                   closeCalls, leftover, delivered, underrun, lastCb>>
    /\ late' = Counted(late, "put", exit_worker)

\* ---- YouTubeAudioPlayer: play() and stop() on the controller thread ----

Idle == [op |-> "none", pc |-> "idle", t |-> 0, idle |-> TRUE]

\* no session is playing: no player yet, or the current one has been closed
SessionIdle == player = 0 \/ stream[player] = "closed"

StopSkipped(th) == FALSE

\* line 148: if self._stream_thread is not None
StopNeeded(th) == th # 0

JoinSkipped(pc) == TRUE

\* line 150: join() returns once the thread has exited
JoinDone(pc) == pc = "dead"

\* lines 125-131: play(t) is invoked and runs stop() up to its join
PlayCall(t) ==
    /\ ctl.pc = "idle"
    /\ plays < MaxPlays
    /\ plays' = plays + 1
    /\ IF StopNeeded(stream_thread)
       THEN /\ exit_worker' = TRUE
            /\ ctl' = [op |-> "play", pc |-> "join", t |-> t, idle |-> SessionIdle]
       ELSE /\ ctl' = [op |-> "play", pc |-> "construct", t |-> t, idle |-> SessionIdle]
            /\ UNCHANGED exit_worker
    /\ UNCHANGED <<cfg, stops, player, stream_thread, stream, closeCalls, queue,
                   leftover, thread, pushed, delivered, underrun, lastCb>>
    /\ UNCHANGED late

\* lines 143-149: stop() is invoked; it returns at once when there is no thread object
StopCall ==
    /\ ctl.pc = "idle"
    /\ stops < MaxStops
    /\ stops' = stops + 1
    /\ IF StopNeeded(stream_thread)
       THEN /\ exit_worker' = TRUE
            /\ ctl' = [op |-> "stop", pc |-> "join", t |-> 0, idle |-> SessionIdle]
       ELSE UNCHANGED <<exit_worker, ctl>>
    /\ UNCHANGED <<cfg, plays, player, stream_thread, stream, closeCalls, queue,
                   leftover, thread, pushed, delivered, underrun, lastCb>>
    /\ UNCHANGED late

\* line 150: self._stream_thread.join()
Join ==
    /\ ctl.pc = "join"
    /\ JoinDone(thread[stream_thread].pc)
    /\ ctl' = [ctl EXCEPT !.pc = "close"]
    /\ UNCHANGED <<cfg, plays, stops, player, stream_thread, exit_worker, stream,
                   closeCalls, queue, leftover, thread, pushed, delivered, underrun,
                   lastCb>>
    /\ UNCHANGED late

\* line 151: self._player.close(); stop() returns, play() goes on to line 134
Close ==
    /\ ctl.pc = "close"
    /\ stream' = [stream EXCEPT ![player] = CloseStream(@)]
    /\ closeCalls' = [closeCalls EXCEPT ![player] = @ + 1]
    /\ ctl' = IF ctl.op = "play" THEN [ctl EXCEPT !.pc = "construct"] ELSE Idle
    /\ UNCHANGED <<cfg, plays, stops, player, stream_thread, exit_worker, queue,
                   leftover, thread, pushed, delivered, underrun, lastCb>>
    /\ UNCHANGED late

\* lines 34-43: StreamingAudioPlayer.__init__ creates the queue and starts the stream
Construct ==
    /\ ctl.pc = "construct"
    /\ queue' = [queue EXCEPT ![plays] = <<>>]
    /\ stream' = [stream EXCEPT ![plays] = "active"]
    /\ ctl' = [ctl EXCEPT !.pc = "init"]
    /\ UNCHANGED <<cfg, plays, stops, player, stream_thread, exit_worker, closeCalls,
                   leftover, thread, pushed, delivered, underrun, lastCb>>
    /\ UNCHANGED late

\* lines 46-48: self._leftover_buffer = None
InitLeftover ==
    /\ ctl.pc = "init"
    /\ leftover' = [leftover EXCEPT ![plays] = LeftNone]
    /\ ctl' = [ctl EXCEPT !.pc = "start"]
    /\ UNCHANGED <<cfg, plays, stops, player, stream_thread, exit_worker, stream,
                   closeCalls, queue, thread, pushed, delivered, underrun, lastCb>>
    /\ UNCHANGED late

\* line 134: rebinding self._player drops the last reference to the previous
\* StreamingAudioPlayer; its queue and leftover buffer go with it
Released(f, old, empty) == IF old = 0 THEN f ELSE [f EXCEPT ![old] = empty]

\* lines 134-141: self._player is bound, the flag cleared, the thread started
StartWorker ==
    /\ ctl.pc = "start"
    /\ player' = plays
    /\ exit_worker' = FALSE
    /\ stream_thread' = plays
    /\ thread' = [thread EXCEPT ![plays] = [NoThread EXCEPT !.pc = "seek", !.start = ctl.t]]
    /\ queue' = Released(queue, player, <<>>)
    /\ leftover' = Released(leftover, player, LeftUnset)
    /\ pushed' = Released(pushed, player, <<>>)
    /\ delivered' = Released(delivered, player, <<>>)
    /\ underrun' = Released(underrun, player, FALSE)
    /\ lastCb' = IF lastCb.p = player THEN NoCallback ELSE lastCb
    /\ ctl' = Idle
    /\ UNCHANGED <<cfg, plays, stops, stream, closeCalls>>
    /\ late' = NoLate

\* ---- specifications ----

InitState(c) ==
    /\ cfg = c
    /\ ctl = Idle
    /\ plays = 0
    /\ stops = 0
    /\ player = 0
    /\ stream_thread = 0
    /\ exit_worker = FALSE
    /\ stream = [p \in Sessions |-> "none"]
    /\ closeCalls = [p \in Sessions |-> 0]
    /\ queue = [p \in Sessions |-> <<>>]
    /\ leftover = [p \in Sessions |-> LeftUnset]
    /\ thread = [s \in Sessions |-> NoThread]
    /\ pushed = [p \in Sessions |-> <<>>]
    /\ delivered = [p \in Sessions |-> <<>>]
    /\ underrun = [p \in Sessions |-> FALSE]
    /\ lastCb = NoCallback
    /\ late = NoLate

SmallCfg == [lens |-> {1, 3}, blocks |-> {1, 2}, starts |-> {1}, ticks |-> 2]

Init == InitState(SmallCfg)

Next ==
    \/ \E t \in cfg.starts : PlayCall(t)
    \/ StopCall
    \/ Join
    \/ Close
    \/ Construct
    \/ InitLeftover
    \/ StartWorker
    \/ \E s \in Sessions : WorkerSeek(s)
    \/ \E s \in Sessions : WorkerNext(s)
    \/ \E s \in Sessions : WorkerEnd(s)
    \/ \E s \in Sessions : WorkerCheck(s)
    \/ \E s \in Sessions : WorkerAppend(s)
    \/ \E s \in Sessions : WorkerPut(s)
    \/ \E p \in Sessions : \E frames \in cfg.blocks : Callback(p, frames)

Spec == Init /\ [][Next]_vars

\* The worker thread, the audio thread and the controller inside a call keep
\* running: each takes its next step when it stays able to.  Nothing obliges the
\* caller to invoke play() or stop().
WorkerStep ==
    \E s \in Sessions :
        \/ WorkerSeek(s) \/ WorkerNext(s) \/ WorkerEnd(s)
        \/ WorkerCheck(s) \/ WorkerAppend(s) \/ WorkerPut(s)

CallbackStep == \E p \in Sessions : \E frames \in cfg.blocks : Callback(p, frames)

ControllerStep == Join \/ Close \/ Construct \/ InitLeftover \/ StartWorker

Fairness == WF_vars(WorkerStep) /\ WF_vars(CallbackStep) /\ WF_vars(ControllerStep)

\* decoded frames of 1 or 3 samples against output blocks of 2 frames: chunks
\* shorter and longer than the block
FairCfg == [lens |-> {1, 3}, blocks |-> {2}, starts |-> {1}, ticks |-> 2]

InitFair == InitState(FairCfg)

SpecFair == InitFair /\ [][Next]_vars /\ Fairness

\* decoded frames of 100 samples and output blocks of 150 frames
ScenarioCfg == [lens |-> {100}, blocks |-> {150}, starts |-> {1}, ticks |-> 2]

InitScenario == InitState(ScenarioCfg)

SpecScenario == InitScenario /\ [][Next]_vars

\* ---- properties ----

\* an output stream that has been started and not yet closed
Open(p) == stream[p] \in {"active", "aborted"}

LiveWorkers == {s \in Sessions : Alive(s)}

OpenDrivers == {p \in Sessions : Open(p)}

\* C1: at every moment at most one decode worker is alive and at most one
\* output stream is started and not yet closed; when a play() call returns
\* (its worker has just been started) exactly one worker and one driver are
\* live, and they are those of that call.
AtMostOnePair ==
    /\ Cardinality(LiveWorkers) <= 1
    /\ Cardinality(OpenDrivers) <= 1
    /\ \A s \in Sessions :
         thread[s].pc = "seek" => LiveWorkers = {s} /\ OpenDrivers = {s} /\ player = s

\* play(t1); play(t2) with no stop() in between, the second call has returned
SecondPlayReturned ==
    plays = 2 /\ stops = 0 /\ ctl.pc = "idle" /\ thread[2].pc = "seek" /\ stream[1] = "closed"

\* the frames a step adds to what player p has written to the output sink
NewlyDelivered(p) == SubSeq(delivered'[p], Len(delivered[p]) + 1, Len(delivered'[p]))

\* C2 as stated: once a later play() has been invoked, no callback writes a frame
\* decoded by an earlier session.
NoOldFramesAfterPlayInvoked ==
    [][\A p \in Sessions : \A i \in DOMAIN NewlyDelivered(p) :
          NewlyDelivered(p)[i][1] >= plays]_vars

\* C2 amended: a frame of an earlier session is written only while the play()
\* that supersedes it is still inside its stop(): waiting in join() or about to
\* close the driver.  Once that close() has run, so in particular once play()
\* has returned, no frame of the earlier session is written.
NoOldFramesAfterDriverClosed ==
    [][\A p \in Sessions : \A i \in DOMAIN NewlyDelivered(p) :
          NewlyDelivered(p)[i][1] < plays =>
              /\ ctl.op = "play"
              /\ ctl.pc \in {"join", "close"}
              /\ NewlyDelivered(p)[i][1] = plays - 1]_vars

\* play(t2) has closed the driver of session 1 while frames of session 1 were
\* still queued for it
OldFramesLeftBehind ==
    /\ ctl.op = "play" /\ ctl.pc = "construct" /\ plays = 2 /\ stops = 0
    /\ stream[1] = "closed" /\ queue[1] # <<>>

\* C3: a stop() invoked while no session is playing changes neither the
\* cancellation flag, nor the thread handle, nor any driver, and closes nothing.
StopOnIdleIsNoOp ==
    [][/\ (ctl.pc = "idle" /\ SessionIdle /\ stops' = stops + 1)
            => UNCHANGED <<exit_worker, stream_thread, stream, closeCalls>>
       /\ (ctl.op = "stop" /\ ctl.idle)
            => UNCHANGED <<exit_worker, stream_thread, stream, closeCalls>>]_vars

\* C4: close() is invoked at most once on each StreamingAudioPlayer.
CloseAtMostOnce == \A p \in Sessions : closeCalls[p] <= 1

\* C5: while a worker is alive the player it pushes into is its own session's
\* player, and that player's driver has not been closed.
JoinBeforeRelease ==
    \A s \in Sessions :
        Alive(s) => player = s /\ closeCalls[s] = 0 /\ stream[s] # "closed"

\* the implicit stop() of play() has closed a driver whose worker was cancelled
\* with audio still queued
ReleasedAfterJoin ==
    /\ ctl.op = "play" /\ ctl.pc = "construct"
    /\ closeCalls[1] = 1 /\ stream[1] = "closed" /\ thread[1].pc = "dead"
    /\ queue[1] # <<>>

\* C6: as long as no callback of a player has zero-filled, what it has written
\* to the sink, then its leftover, then its queued chunks, is what was pushed:
\* the frames written are the pushed frames, in order, each once.
NoLossNoDuplication ==
    \A p \in Sessions :
        ~underrun[p] =>
            delivered[p] \o LeftoverFrames(leftover[p]) \o Flatten(queue[p]) = pushed[p]

\* three chunks were pushed and all their frames written, with no zero-fill
AllDeliveredNoUnderrun ==
    \E p \in Sessions :
        /\ ~underrun[p] /\ Len(pushed[p]) >= 5 /\ delivered[p] = pushed[p]
        /\ thread[p].n = 3

\* C7: a queue never holds more than QueueSize chunks; a worker in put() on a
\* full queue does not move; an insertion happens only below capacity and
\* appends at the tail.
CapacityBound ==
    /\ [](\A p \in Sessions : Len(queue[p]) \in 0..QueueSize)
    /\ [][\A s \in Sessions :
            /\ (thread[s].pc = "put" /\ Len(queue[player]) = QueueSize)
                 => thread'[s] = thread[s] /\ Len(queue'[player]) <= QueueSize
            /\ Len(queue'[s]) > Len(queue[s])
                 => /\ Len(queue[s]) < QueueSize
                    /\ SubSeq(queue'[s], 1, Len(queue[s])) = queue[s]
                    /\ Len(queue'[s]) = Len(queue[s]) + 1]_vars

\* a worker is blocked in put() on a full queue
ProducerBlocked ==
    \E s \in Sessions : thread[s].pc = "put" /\ player = s /\ Len(queue[s]) = QueueSize

\* the frames the last callback had at hand: leftover, then the fetched chunk
Available == lastCb.left \o lastCb.chunk

NextAfterLongChunk ==
    /\ lastCb.st = "ok" /\ lastCb.left = <<>> /\ Len(lastCb.chunk) > lastCb.frames
    /\ lastCb' # lastCb /\ lastCb'.p = lastCb.p /\ lastCb'.st = "ok"

CarriedOver == SubSeq(lastCb.chunk, lastCb.frames + 1, Len(lastCb.chunk))

\* C9 as stated: the first L frames of the chunk are this invocation's output and
\* all K-L remaining frames open the next invocation's output.
LeftoverAllInNextOutput ==
    [][NextAfterLongChunk =>
          /\ lastCb.out = SubSeq(lastCb.chunk, 1, lastCb.frames)
          /\ IsPrefix(CarriedOver, lastCb'.out)]_vars

\* C9 amended: the first L frames of the chunk are this invocation's output; the
\* next invocation, asked for L2 frames, starts its output with the first
\* min(K-L, L2) remaining frames, before any frame of the chunk it fetches, and
\* whatever is left of the K-L frames stays at the head of the leftover.
LeftoverCarriesOver ==
    [][NextAfterLongChunk =>
          /\ lastCb.out = SubSeq(lastCb.chunk, 1, lastCb.frames)
          /\ lastCb'.left = CarriedOver
          /\ IsPrefix(Take(CarriedOver, lastCb'.frames), lastCb'.out)
          /\ Len(CarriedOver) < lastCb'.frames /\ lastCb'.got
               => lastCb'.out[Len(CarriedOver) + 1] = lastCb'.chunk[1]
          /\ Len(CarriedOver) > lastCb'.frames
               => IsPrefix(Drop(CarriedOver, lastCb'.frames),
                           LeftoverFrames(leftover'[lastCb.p]))]_vars

\* a callback started its output with carried-over frames and went on with the
\* chunk it fetched
LeftoverThenChunk ==
    /\ lastCb.st = "ok" /\ lastCb.left # <<>> /\ lastCb.got
    /\ Len(lastCb.left) < lastCb.frames
    /\ lastCb.out[1] = lastCb.left[1]

\* two chunks of 100 frames are queued, nothing is left over, and this step is
\* a callback of that player asked for 150 frames
ScenarioFirst(p) ==
    /\ Len(queue[p]) = 2 /\ Len(queue[p][1]) = 100 /\ Len(queue[p][2]) = 100
    /\ LeftoverFrames(leftover[p]) = <<>>
    /\ Len(queue'[p]) < Len(queue[p])
    /\ lastCb'.p = p /\ lastCb'.frames = 150

\* the step is the callback that follows ScenarioFirst, no chunk having arrived
ScenarioSecond(p) ==
    /\ lastCb.p = p /\ lastCb.st = "ok" /\ lastCb.frames = 150
    /\ lastCb.left = <<>> /\ Len(lastCb.chunk) = 100
    /\ Len(pushed[p]) = 200 /\ Len(delivered[p]) = 100 /\ pushed'[p] = pushed[p]
    /\ Len(delivered'[p]) > Len(delivered[p])
    /\ lastCb'.p = p /\ lastCb'.frames = 150

\* C10 as stated: the first callback writes A and the first 50 frames of B and
\* keeps B's last 50 frames as leftover; the second writes those 50 frames and
\* 100 zero frames.
ScenarioAsStated ==
    [][\A p \in Sessions :
          /\ ScenarioFirst(p) =>
               /\ lastCb'.out = queue[p][1] \o SubSeq(queue[p][2], 1, 50)
               /\ LeftoverFrames(leftover'[p]) = SubSeq(queue[p][2], 51, 100)
          /\ ScenarioSecond(p) =>
               lastCb'.out = SubSeq(Flatten(queue[p]), 51, 100) \o Silence(100)]_vars

\* C10 amended: the callback fetches one chunk per invocation, so the first
\* callback writes A(0:100) and 50 zero frames, keeps no leftover and leaves B
\* queued; the second, no further chunk arriving, writes B(0:100) and 50 zero
\* frames.
ScenarioSingleFetch ==
    [][\A p \in Sessions :
          /\ ScenarioFirst(p) =>
               /\ lastCb'.out = queue[p][1] \o Silence(50)
               /\ LeftoverFrames(leftover'[p]) = <<>>
               /\ queue'[p] = <<queue[p][2]>>
          /\ ScenarioSecond(p) =>
               /\ queue[p] # <<>>
               /\ lastCb'.out = queue[p][1] \o Silence(50)
               /\ LeftoverFrames(leftover'[p]) = <<>>
               /\ queue'[p] = <<>>]_vars

\* both callbacks of the scenario have run: A and B were written, each followed
\* by zero-fill, and nothing is queued or left over
ScenarioPlayed ==
    \E p \in Sessions :
        /\ Len(pushed[p]) = 200 /\ delivered[p] = pushed[p] /\ queue[p] = <<>>
        /\ lastCb.p = p /\ lastCb.frames = 150 /\ lastCb.left = <<>>
        /\ Len(lastCb.chunk) = 100
        /\ lastCb.out = SubSeq(pushed[p], 101, 200) \o Silence(50)

\* a stop() invoked on a Playing session is in progress
Stopping == ctl.op = "stop" /\ ~ctl.idle

\* stop() has returned with the worker exited and the driver released
Stopped ==
    /\ ctl.pc = "idle" /\ ctl.op = "none"
    /\ stream_thread # 0 /\ player # 0
    /\ \A s \in Sessions : ~Alive(s)
    /\ \A p \in Sessions : stream[p] \in {"none", "closed"}

\* C11: a stop() invoked on a Playing session eventually returns, with the
\* worker exited and the driver released.
StopReturns == Stopping ~> Stopped

\* C12: while a player's output stream is active, its leftover buffer changes
\* only in steps of the audio thread: never in a step of the controller or of
\* a worker.
LeftoverOnlyByCallback ==
    [][\A p \in Sessions :
          (stream[p] = "active" /\ leftover'[p] # leftover[p])
              => ctl' = ctl /\ thread' = thread]_vars

IsSuffix(a, b) == Len(a) <= Len(b) /\ SubSeq(b, Len(b) - Len(a) + 1, Len(b)) = a

\* the leftover frames of the player the last callback ran on
LeftNow == LeftoverFrames(leftover[lastCb.p])

CancellationBound ==
    /\ [](late.acc <= 1 /\ late.put <= 1)
    /\ [][\A s \in Sessions :
            (thread[s].pc = "check" /\ exit_worker /\ thread'[s] # thread[s])
                => thread'[s] = DeadThread /\ queue' = queue /\ pushed' = pushed]_vars

\* the flag was set between the worker's test and its put: one frame was
\* accumulated and one chunk enqueued after it
OneLateChunk == late.acc = 1 /\ late.put = 1 /\ exit_worker /\ Alive(stream_thread)

\* a step of the audio thread: neither the controller nor a worker moves
AudioStep == ctl' = ctl /\ thread' = thread

\* C15: a callback that runs to its end removes the head chunk when the queue
\* is not empty and nothing when it is empty, so the queue shrinks by at most
\* one chunk per invocation; a callback of an active stream never waits.
SingleFetch ==
    /\ [](\A p \in Sessions :
            stream[p] = "active" => ENABLED (\E f \in cfg.blocks : Callback(p, f)))
    /\ [][(AudioStep /\ lastCb'.st = "ok") =>
            LET p == lastCb'.p
            IN  IF queue[p] = <<>>
                THEN queue'[p] = <<>> /\ ~lastCb'.got
                ELSE /\ queue'[p] = Tail(queue[p])
                     /\ lastCb'.got /\ lastCb'.chunk = Head(queue[p])]_vars

\* a callback zero-filled although a chunk was still queued behind the one it
\* fetched
UnderrunWithChunkQueued ==
    /\ lastCb.st = "ok" /\ lastCb.got /\ Len(Available) < lastCb.frames
    /\ queue[lastCb.p] # <<>>

\* C16: after a callback that zero-filled, the leftover holds no frame, and
\* everything written so far is followed directly by the queued chunks.
NoLeftoverAfterUnderrun ==
    (lastCb.st = "ok" /\ Len(Available) < lastCb.frames) =>
        /\ leftover[lastCb.p].buf = <<>>
        /\ delivered[lastCb.p] \o Flatten(queue[lastCb.p]) = pushed[lastCb.p]

\* a callback wrote its leftover frames, fetched nothing and zero-filled
LeftoverThenSilence ==
    /\ lastCb.st = "ok" /\ lastCb.left # <<>> /\ ~lastCb.got
    /\ Len(lastCb.left) < lastCb.frames

\* nothing is queued or left over for player p, and all that was pushed is written
Drained(p) ==
    /\ queue[p] = <<>>
    /\ LeftoverFrames(leftover[p]) = <<>>
    /\ delivered[p] = pushed[p]

\* the worker of the current session has exited and its driver is still active
WorkerGone ==
    \E p \in Sessions : player = p /\ thread[p].pc = "dead" /\ stream[p] = "active"

\* C17: once the worker of the current session has exited, as long as its
\* driver stays active every queued chunk and leftover frame gets written;
\* from then on the player stays drained and its callbacks write only zeros.
DrainToSilence ==
    /\ WorkerGone ~> (~WorkerGone \/ \E p \in Sessions : player = p /\ Drained(p))
    /\ [][\A p \in Sessions :
            (WorkerGone /\ player = p /\ Drained(p) /\ AudioStep)
                => /\ Drained(p)'
                   /\ lastCb'.p = p => lastCb'.out = Silence(lastCb'.frames)]_vars

\* the worker has exited, its frames have all been written and the last
\* callback, finding nothing, wrote silence
SilenceAfterDrain ==
    \E p \in Sessions :
        /\ thread[p].pc = "dead" /\ player = p /\ stream[p] = "active"
        /\ Drained(p) /\ Len(delivered[p]) >= 4
        /\ lastCb.p = p /\ lastCb.st = "ok" /\ lastCb.out = Silence(lastCb.frames)

\* the session that decoded a frame
SessionOf(frame) == frame[1]

AllFrom(seq, s) == \A i \in DOMAIN seq : SessionOf(seq[i]) = s

\* C18: a live worker pushes into the player of its own play() call, the
\* driver of an earlier session is closed once a later player is bound, and the
\* queue, the leftover and the output of a player hold frames of its own
\* session only.
SessionScoped ==
    \A p \in Sessions :
        /\ Alive(p) => player = p
        /\ p < player => stream[p] = "closed"
        /\ AllFrom(pushed[p], p)
        /\ AllFrom(Flatten(queue[p]), p)
        /\ AllFrom(leftover[p].buf, p)
        /\ AllFrom(delivered[p], p)

\* the second session is running with frames queued and written while the
\* first one's driver is closed
SecondSessionStreaming ==
    /\ plays = 2 /\ player = 2 /\ stream[1] = "closed" /\ Alive(2)
    /\ queue[2] # <<>> /\ delivered[2] # <<>>

\* C19: whatever the interleaving, and after zero-fills too, the frames written
\* by a player, then its leftover, then its queued chunks, are the frames
\* pushed to it.
FrameConservation ==
    \A p \in Sessions :
        stream[p] # "none" =>
            delivered[p] \o leftover[p].buf \o Flatten(queue[p]) = pushed[p]

\* frames written, left over and queued at once, after a zero-fill
ConservedAcrossUnderrun ==
    \E p \in Sessions :
        /\ underrun[p] /\ delivered[p] # <<>> /\ leftover[p].buf # <<>>
        /\ queue[p] # <<>>

\* C20: whenever the output stream of a player is active, its
\* _leftover_buffer has been assigned.
LeftoverInitialisedBeforeUse ==
    \A p \in Sessions : stream[p] = "active" => leftover[p].st # "unset"

====
